---- MODULE Spec2Model ----
(***************************************************************************)
(* Model of the bonsol on-chain program: request admission (execute.rs),   *)
(* claims (claim.rs) and settlement (status.rs).  Every handler is one     *)
(* atomic ledger transaction: it either commits all its writes or, when it *)
(* returns an error, leaves the ledger as it was.                          *)
(*                                                                         *)
(* Accounts are identified by the role the handler's header comment gives  *)
(* them.  The helpers of assertions.rs / utilities.rs and the types of     *)
(* bonsol_interface are not part of src/; they are modelled from the       *)
(* specification (ledger primitives: derive, create-if-absent, transfer,   *)
(* close-and-refund, sub-call).                                            *)
(***************************************************************************)
EXTENDS Integers, Sequences, FiniteSets, TLC

\* ---------------------------------------------------------------- bounds
MaxSlot == 2
MaxTip == 2
MaxExtra == 1

\* ------------------------------------------------------- ledger universe
None == "None"
\* crate::ID, the program's own address
ID == "bonsol"
CallbackProgram == "cbprog"
OtherProgram == "otherprog"
Programs == {ID, CallbackProgram, OtherProgram}

Requester == "requester"
Payer == "payer"
Provers == {"p1", "p2"}
Wallets == {Requester, Payer} \cup Provers
EIds == {"e1"}
ExtraKeys == {"x1", "x2"}
Digests == {"d1", "d2"}

\* balance a new request record / claim record is created with, above any
\* value escrowed in it
ExecRent == 1
ClaimRent == 1

Tips == 1..MaxTip
Slots == 0..MaxSlot

InitLamports ==
    [w \in Wallets |->
        CASE w = Requester -> 0
          [] w = Payer -> MaxTip + ExecRent + ClaimRent
          [] OTHER -> MaxTip]

\* ------------------------------------------------------------- sequences
RECURSIVE SeqsUpTo(_, _)
SeqsUpTo(S, n) ==
    IF n = 0 THEN {<<>>}
    ELSE LET shorter == SeqsUpTo(S, n - 1)
         IN shorter \cup {Append(s, x) : s \in {t \in shorter : Len(t) = n - 1}, x \in S}

RECURSIVE SumSeq(_)
SumSeq(s) == IF s = <<>> THEN 0 ELSE Head(s) + SumSeq(Tail(s))

\* ------------------------------------------------- execution request (ER)
\* ExecutionRequestV1: the fields the handlers read.  Optional fields hold
\* None when absent; callback_extra_accounts is [some, v].
StoredAccount(k, w) == [pubkey |-> k, writable |-> w]
NoAccounts == [some |-> FALSE, v |-> <<>>]
SomeAccounts(s) == [some |-> TRUE, v |-> s]

Input(t, present, bytes) == [input_type |-> t, data |-> [some |-> present, v |-> bytes]]
PublicInput == Input("PublicData", TRUE, <<1>>)
PrivateLocalInput == Input("PrivateLocal", TRUE, <<1>>)

BaseER ==
    [execution_id |-> "e1",
     tip |-> 2,
     max_block_height |-> 2,
     verify_input_hash |-> FALSE,
     input_digest |-> None,
     callback_program_id |-> None,
     callback_instruction_prefix |-> None,
     callback_extra_accounts |-> NoAccounts,
     forward_output |-> FALSE,
     prover_version |-> "V1_0_1",
     input |-> SomeAccounts(<<PublicInput>>)]

\* admission payloads: the base request varied one aspect at a time
TipHeightERs ==
    {[BaseER EXCEPT !.tip = t, !.max_block_height = m] : t \in Tips, m \in Slots}

InputHashERs ==
    {[BaseER EXCEPT !.verify_input_hash = TRUE, !.input_digest = d] :
        d \in {None, "d1"}}

StoredWritable == {0, 1, 255}

CallbackERs ==
    {[BaseER EXCEPT !.callback_program_id = p,
                    !.callback_instruction_prefix = x,
                    !.callback_extra_accounts = a,
                    !.forward_output = f] :
        p \in {CallbackProgram}, x \in {"pfx"}, f \in BOOLEAN,
        a \in {NoAccounts, SomeAccounts(<<>>)}
              \cup {SomeAccounts(<<StoredAccount("x1", w)>>) : w \in StoredWritable}}
    \cup {[BaseER EXCEPT !.callback_program_id = CallbackProgram],
          [BaseER EXCEPT !.callback_instruction_prefix = "pfx"]}

VersionERs == {[BaseER EXCEPT !.prover_version = "unknown"]}

InputERs ==
    {[BaseER EXCEPT !.input = i] :
        i \in {NoAccounts,
               SomeAccounts(<<PublicInput, PublicInput, PublicInput>>),
               SomeAccounts(<<PublicInput, PrivateLocalInput>>),
               SomeAccounts(<<Input("InputSet", TRUE, <<6>>), PublicInput>>),
               SomeAccounts(<<Input("InputSet", TRUE, <<7>>), PublicInput>>),
               SomeAccounts(<<Input("InputSet", TRUE, <<>>)>>),
               SomeAccounts(<<Input("InputSet", FALSE, <<>>)>>),
               SomeAccounts(<<Input("InputSet", TRUE, <<5>>)>>)}}

\* a request whose tip is above the balance any prover starts with
RichTipERs == {[BaseER EXCEPT !.tip = MaxTip + 1]}

ExecutePayloads ==
    TipHeightERs \cup RichTipERs \cup InputHashERs \cup CallbackERs \cup VersionERs
        \cup InputERs

\* deployment records (deploy.inputs is optional) and the auxiliary
\* accounts an admission call can pass (accounts[6..])
Deployments == {[some |-> FALSE, v |-> 0], [some |-> TRUE, v |-> 1], [some |-> TRUE, v |-> 3]}
InputSetAccount(n) == [is_input_set |-> TRUE, inputs |-> [some |-> TRUE, v |-> n]]
ExecuteExtraAccounts ==
    {<<>>, <<InputSetAccount(2)>>, <<InputSetAccount(0)>>,
     <<[is_input_set |-> FALSE, inputs |-> [some |-> FALSE, v |-> 0]]>>,
     <<[is_input_set |-> TRUE, inputs |-> [some |-> FALSE, v |-> 0]]>>}

\* ------------------------------------------------------------------ state
VARIABLES
    slot,       \* Clock::get()?.slot
    lamports,   \* balances of the wallets
    exec,       \* execution request record per execution id
    claim,      \* claim record per execution id
    outcome,    \* exit code emitted by the last closure of each request
    last        \* the last call: its inputs that matter, result and effects

vars == <<slot, lamports, exec, claim, outcome, last>>

NoExec == [exists |-> FALSE, er |-> BaseER, lamports |-> 0]
NoClaim == [exists |-> FALSE, claimer |-> None, block_commitment |-> 0, lamports |-> 0]

NoCall ==
    [op |-> "none", e |-> "e1", who |-> None, result |-> "Ok", path |-> "none",
     tip_to |-> None, callback |-> "none", payload |-> <<>>, verifier |-> FALSE]

Init ==
    /\ slot = 0
    /\ lamports = InitLamports
    /\ exec = [e \in EIds |-> NoExec]
    /\ claim = [e \in EIds |-> NoClaim]
    /\ outcome = [e \in EIds |-> None]
    /\ last = NoCall

\* the ledger a handler runs against, and the result it hands back
Ledger == [lamports |-> lamports, exec |-> exec, claim |-> claim, outcome |-> outcome]

Fail(L, err) ==
    [result |-> err, L |-> L, path |-> "none", tip_to |-> None,
     callback |-> "none", payload |-> <<>>, verifier |-> FALSE]
Done(L, path) ==
    [result |-> "Ok", L |-> L, path |-> path, tip_to |-> None,
     callback |-> "none", payload |-> <<>>, verifier |-> FALSE]

\* a transaction commits its writes only when the handler returns Ok
Commit(r, op, e, who) ==
    /\ last' = [op |-> op, e |-> e, who |-> who, result |-> r.result, path |-> r.path,
                tip_to |-> r.tip_to, callback |-> r.callback, payload |-> r.payload,
                verifier |-> r.verifier]
    /\ IF r.result = "Ok"
       THEN /\ lamports' = r.L.lamports
            /\ exec' = r.L.exec
            /\ claim' = r.L.claim
            /\ outcome' = r.L.outcome
       ELSE UNCHANGED <<lamports, exec, claim, outcome>>
    /\ UNCHANGED slot

\* ------------------------------------------------------ ledger primitives
WalletRef(w) == [kind |-> "wallet", id |-> w]
ExecRef(e) == [kind |-> "exec", id |-> e]
ClaimRef(e) == [kind |-> "claim", id |-> e]

Balance(L, a) ==
    CASE a.kind = "wallet" -> L.lamports[a.id]
      [] a.kind = "exec" -> L.exec[a.id].lamports
      [] OTHER -> L.claim[a.id].lamports

SetBalance(L, a, n) ==
    CASE a.kind = "wallet" -> [L EXCEPT !.lamports[a.id] = n]
      [] a.kind = "exec" -> [L EXCEPT !.exec[a.id].lamports = n]
      [] OTHER -> [L EXCEPT !.claim[a.id].lamports = n]

\* move n from one account to another; the caller checks Balance(from) >= n
Transfer(L, from, to, n) ==
    LET L1 == SetBalance(L, from, Balance(L, from) - n)
    IN SetBalance(L1, to, Balance(L1, to) + n)

\* utilities::cleanup_execution_account: close the request record with an
\* exit code and refund its whole balance to the target
cleanup_execution_account(L, e, target, exit_code) ==
    LET L1 == Transfer(L, ExecRef(e), target, Balance(L, ExecRef(e)))
    IN [L1 EXCEPT !.exec[e] = NoExec, !.outcome[e] = exit_code]

\* utilities::save_structure: create the record at its derived address,
\* funded by the payer with the record's rent and the reward it escrows
save_structure(L, e, er, payer) ==
    LET L1 == Transfer(L, WalletRef(payer), ExecRef(e), ExecRent + er.tip)
    IN [L1 EXCEPT !.exec[e].exists = TRUE, !.exec[e].er = er]

\* ------------------------------------------------------------- execute.rs
\* check_execution_accounts: the request account must be an empty account
\* of the system program (no record at that address yet)
check_execution_accountsAnyAccount(L, e) == TRUE

check_execution_accounts(L, e) == ~L.exec[e].exists

validate_er(er) ==
    IF er.max_block_height = 0 THEN "MaxBlockHeightRequired"
    ELSE IF er.verify_input_hash /\ er.input_digest = None THEN "InputDigestRequired"
    ELSE "Ok"

IsInputSet(i) == i.data.some /\ i.input_type = "InputSet"

\* the account index is one byte, offset by the 6 fixed accounts; a missing
\* byte, an index below 6 or past the auxiliary accounts panics
InputSetIndexOk(i, extra_accounts) ==
    /\ Len(i.data.v) >= 1
    /\ i.data.v[1] >= 6
    /\ i.data.v[1] - 6 < Len(extra_accounts)

\* flat_map over a Result: an account that is no input set, or one without
\* inputs, contributes no element to the sum
InputSetLen(i, extra_accounts) ==
    LET a == extra_accounts[i.data.v[1] - 6 + 1]
    IN IF a.is_input_set /\ a.inputs.some THEN a.inputs.v ELSE 0

validate_inputs(er, required_input_size, extra_accounts) ==
    IF ~er.input.some THEN "InvalidInputs"
    ELSE LET inputs == er.input.v
             idx == 1..Len(inputs)
             sets == {k \in idx : IsInputSet(inputs[k])}
         IN IF \E k \in idx : inputs[k].input_type = "PrivateLocal"
            THEN "InvalidInputType"
            ELSE IF \E k \in sets : ~InputSetIndexOk(inputs[k], extra_accounts)
            THEN "Panic"
            ELSE LET num_sets == Cardinality(sets)
                     input_set ==
                         SumSeq([k \in idx |->
                                    IF k \in sets
                                    THEN InputSetLen(inputs[k], extra_accounts)
                                    ELSE 0])
                 IN IF Len(inputs) - num_sets + input_set # required_input_size
                    THEN "InvalidInputs"
                    ELSE "Ok"

RequiredInputSize(deploy) == IF deploy.some THEN deploy.v ELSE 1

process_execute_v1(L, e, payer, er, deploy, extra_accounts) ==
    IF ~check_execution_accounts(L, e) THEN Fail(L, "InvalidExecutionAccount")
    ELSE LET v == validate_inputs(er, RequiredInputSize(deploy), extra_accounts)
         IN IF v # "Ok" THEN Fail(L, v)
            ELSE IF er.execution_id # e THEN Fail(L, "InvalidExecutionAccount")
            ELSE IF Balance(L, WalletRef(payer)) < ExecRent + er.tip
            THEN Fail(L, "InsufficientFunds")
            ELSE Done(save_structure(L, e, er, payer), "created")

\* --------------------------------------------------------------- claim.rs
\* claim payloads (ClaimV1): execution id and the block commitment the
\* caller supplies
ClaimPayloads == [execution_id : EIds, block_commitment : Slots]

\* ClaimStateV1::from_claim_ix: the record of a claim taken by `claimer` at
\* `current_block`
from_claim_ix(claimer, current_block, block_commitment) ==
    [claimer |-> claimer, block_commitment |-> current_block]

\* ClaimStateV1::save_claim
save_claim(L, e, c) ==
    [L EXCEPT !.claim[e].claimer = c.claimer,
              !.claim[e].block_commitment = c.block_commitment]

\* utilities::create_program_account: a program-owned, zeroed claim record
\* funded by the payer
create_program_account(L, e, payer) ==
    LET L1 == Transfer(L, WalletRef(payer), ClaimRef(e), ClaimRent)
    IN [L1 EXCEPT !.claim[e].exists = TRUE,
                  !.claim[e].claimer = None,
                  !.claim[e].block_commitment = 0]

\* check_accounts_claim: the request account must be owned by the program
check_accounts_claim(L, e) == L.exec[e].exists

\* the gate taken against the stake to be locked instead of the tip
InsufficientStakeBelowStake(claimer_lamports, tip) == claimer_lamports < tip \div 2

\* claim.rs:78
InsufficientStake(claimer_lamports, tip) == claimer_lamports < tip

\* claim.rs:81
ClaimExpired(er, current_block) == er.max_block_height < current_block

\* the whole tip taken as stake
ClaimStakeWholeTip(tip) == tip

\* claim.rs:85
ClaimStake(tip) == tip \div 2

\* the claim account taken as empty whatever it holds
ClaimAccountEmptyUnchecked(L, e) == TRUE

\* claim.rs:94: the claim account is an empty account of the system program
ClaimAccountEmpty(L, e) == ~L.claim[e].exists

build_claim(L, e, claimer, payer, data, current_block) ==
    LET er == L.exec[e].er
        tip == er.tip
        claim_meta ==
            [block_commitment |-> data.block_commitment,
             existing_claim |-> ~ClaimAccountEmpty(L, e),
             stake |-> ClaimStake(tip),
             expired |-> ClaimExpired(er, current_block)]
    IN IF data.execution_id # e
       THEN [result |-> "InvalidExecutionAccount", L |-> L, claim |-> claim_meta]
       ELSE IF er.execution_id # data.execution_id
       THEN [result |-> "InvalidExecutionId", L |-> L, claim |-> claim_meta]
       ELSE IF InsufficientStake(Balance(L, WalletRef(claimer)), tip)
       THEN [result |-> "InsufficientStake", L |-> L, claim |-> claim_meta]
       ELSE IF ClaimAccountEmpty(L, e)
       THEN IF Balance(L, WalletRef(payer)) < ClaimRent
            THEN [result |-> "InsufficientFunds", L |-> L, claim |-> claim_meta]
            ELSE [result |-> "Ok", L |-> create_program_account(L, e, payer),
                  claim |-> claim_meta]
       ELSE [result |-> "Ok", L |-> L, claim |-> claim_meta]

\* claim.rs:132-136: the account the closed request's balance goes to
ExpiredClaimRefundTarget(requester, claimer) == WalletRef(claimer)

\* claim.rs:144: the account the escrowed stake is transferred out to
StakeRefundTarget(current_claim, claimer) == WalletRef(claimer)

\* the window taken to end at, not after, the commitment height
ClaimContestableAtCommitment(current_block, current_claim) ==
    current_block >= current_claim.block_commitment

\* claim.rs:145
ClaimContestable(current_block, current_claim) ==
    current_block > current_claim.block_commitment

process_claim_v1(L, e, claimer, payer, cl, current_block) ==
    IF ~check_accounts_claim(L, e) THEN Fail(L, "InvalidExecutionAccountOwner")
    ELSE
    LET b == build_claim(L, e, claimer, payer, cl, current_block)
        claim_meta == b.claim
    IN IF b.result # "Ok" THEN Fail(L, b.result)
       ELSE IF claim_meta.expired
       THEN Done(cleanup_execution_account(
                     b.L, e, ExpiredClaimRefundTarget(Requester, claimer),
                     "ExecutionExpired"),
                 "expired")
       ELSE IF claim_meta.existing_claim
       THEN LET current_claim == b.L.claim[e]
            IN IF Balance(b.L, ClaimRef(e)) < claim_meta.stake
               THEN Fail(L, "InsufficientFunds")
               ELSE LET L1 == Transfer(b.L, ClaimRef(e),
                                       StakeRefundTarget(current_claim, claimer),
                                       claim_meta.stake)
                    IN IF ClaimContestable(current_block, current_claim)
                       THEN LET c == from_claim_ix(claimer, current_block,
                                                   claim_meta.block_commitment)
                                L2 == save_claim(L1, e, c)
                            IN IF Balance(L2, WalletRef(claimer)) < claim_meta.stake
                               THEN Fail(L, "InsufficientFunds")
                               ELSE Done(Transfer(L2, WalletRef(claimer), ClaimRef(e),
                                                  claim_meta.stake),
                                         "contested")
                       ELSE Fail(L, "ActiveClaimExists")
       ELSE LET c == from_claim_ix(claimer, current_block, claim_meta.block_commitment)
                L1 == Transfer(b.L, WalletRef(claimer), ClaimRef(e), claim_meta.stake)
            IN Done(save_claim(L1, e, c), "first")

\* -------------------------------------------------------------- status.rs
\* status payloads (StatusV1).  A proof is absent, of the wrong length, or
\* 256 bytes that the verifier accepts ("good") or rejects ("bad") for the
\* digests reported with it.
StatusPayloads ==
    [execution_id : EIds,
     proof : {None, "short", "good", "bad"},
     execution_digest : {None, "exed"},
     input_digest : {None} \cup Digests,
     assumption_digest : {None, "asud"},
     committed_outputs : {None, "co"}]

\* the report of a prover that leaves no field out
CompleteReport ==
    [execution_id |-> "e1", proof |-> "good", execution_digest |-> "exed",
     input_digest |-> "d1", assumption_digest |-> "asud", committed_outputs |-> "co"]

\* an account passed after the four fixed ones
ExtraAccount(k, w) == [key |-> k, is_writable |-> w]
ExtraAccountLists ==
    SeqsUpTo({ExtraAccount(k, w) : k \in ExtraKeys, w \in BOOLEAN}, MaxExtra)

\* status.rs:58
ProofOf256(st) == IF st.proof \in {None, "short"} THEN None ELSE st.proof

\* status.rs:59
StatusExpired(er, current_block) == er.max_block_height < current_block

\* the assumption digest left out of the pattern
ReportCompleteNoAssumption(st) ==
    /\ ProofOf256(st) # None
    /\ st.execution_digest # None
    /\ st.input_digest # None
    /\ st.committed_outputs # None

\* status.rs:67-73
ReportComplete(st) ==
    /\ ProofOf256(st) # None
    /\ st.execution_digest # None
    /\ st.assumption_digest # None
    /\ st.input_digest # None
    /\ st.committed_outputs # None

\* status.rs:79-82: the comparison is made and its result dropped
InputHashCheck(er, input_digest) ==
    IF er.verify_input_hash /\ er.input_digest # None
    THEN IF er.input_digest = input_digest THEN "Ok" ELSE "InputsDontMatch"
    ELSE "Ok"
InputHashAssertion(er, input_digest) ==
    LET dropped == InputHashCheck(er, input_digest) IN "Ok"

\* proof_handling::verify_risc0_v1_0_1: the verifier's verdict
verify_risc0_v1_0_1(proof) == proof = "good"

\* prover_version::ProverVersion: try_from, and the default taken for a tag
\* try_from rejects
ProverVersionDefault == "UnsupportedVersion"
ProverVersionTryFrom(tag) ==
    IF tag = "V1_0_1" THEN [ok |-> TRUE, v |-> "V1_0_1"] ELSE [ok |-> FALSE, v |-> None]

\* the verdict of the verifier ignored
verify_with_proverAcceptAll(er, st) == TRUE

verify_with_prover(er, st) ==
    LET t == ProverVersionTryFrom(er.prover_version)
        prover_version == IF t.ok THEN t.v ELSE ProverVersionDefault
    IN IF prover_version = "V1_0_1" THEN verify_risc0_v1_0_1(st.proof) ELSE FALSE

\* u8 bitwise not
NotU8(x) == 255 - x

\* status.rs:125-136: whether entry `a` is refused against the stored entry
WritabilityRefused(a, stored_a) ==
    IF a.is_writable THEN NotU8(stored_a.writable) = 0 ELSE stored_a.writable = 1

\* status.rs:113-138
ExtraAccountsRefused(extra_accounts, extra_accounts_callback) ==
    \/ Len(extra_accounts) # Len(extra_accounts_callback)
    \/ \E i \in 1..Len(extra_accounts) :
          \/ extra_accounts[i].key # extra_accounts_callback[i].pubkey
          \/ WritabilityRefused(extra_accounts[i], extra_accounts_callback[i])

\* status.rs:88-91
CallbackTaken(er, callback_program_key) ==
    /\ callback_program_key # ID
    /\ er.callback_instruction_prefix # None

\* status.rs:140-149
CallbackPayload(er, st) ==
    IF er.forward_output /\ st.committed_outputs # None
    THEN <<er.callback_instruction_prefix, st.input_digest, st.committed_outputs>>
    ELSE <<er.callback_instruction_prefix>>

\* status.rs:157-163: whether the handler goes on after invoke_signed returned
\* `res`; an Err is logged and dropped
CallbackResultPropagated(cb_ok) == cb_ok

CallbackResultAccepted(cb_ok) == TRUE

\* status.rs:167: the account payout_tip credits
TipRecipient(L, e, prover) == WalletRef(prover)

\* the settlement credits the tip to the prover without debiting the
\* request record
PayAndCloseUndebited(L, e, prover, tip, cb, payload) ==
    LET L1 == SetBalance(L, TipRecipient(L, e, prover),
                         Balance(L, TipRecipient(L, e, prover)) + tip)
        L2 == cleanup_execution_account(L1, e, WalletRef(Requester), "Success")
    IN [result |-> "Ok", L |-> L2, path |-> "success", tip_to |-> prover,
        callback |-> cb, payload |-> payload, verifier |-> TRUE]

\* status.rs:166-168
PayAndClose(L, e, prover, tip, cb, payload) ==
    IF Balance(L, ExecRef(e)) < tip THEN Fail(L, "ArithmeticOverflow")
    ELSE LET L1 == Transfer(L, ExecRef(e), TipRecipient(L, e, prover), tip)
             L2 == cleanup_execution_account(L1, e, WalletRef(Requester), "Success")
         IN [result |-> "Ok", L |-> L2, path |-> "success", tip_to |-> prover,
             callback |-> cb, payload |-> payload, verifier |-> TRUE]

\* status.rs:59-61
ExpiredSettlement(L, e) == Fail(L, "ExecutionExpired")

process_status_v1(L, e, prover, callback_program, extra_accounts, st, cb_ok, current_block) ==
    \* status.rs:49-57: the derived-address check and the parse of the request
    \* record: the call must name the open request of (requester, execution id)
    IF st.execution_id # e \/ ~L.exec[e].exists THEN Fail(L, "InvalidExecutionAccount")
    ELSE
    LET er == L.exec[e].er
    IN IF StatusExpired(er, current_block) THEN ExpiredSettlement(L, e)
       ELSE IF ~ReportComplete(st)
       THEN Done(cleanup_execution_account(L, e, WalletRef(Requester), "ProvingError"),
                 "proving_failed")
       ELSE IF InputHashAssertion(er, st.input_digest) # "Ok"
       THEN Fail(L, "InputsDontMatch")
       ELSE IF ~verify_with_prover(er, st)
       THEN [Done(cleanup_execution_account(L, e, WalletRef(Requester), "VerifyError"),
                  "verify_failed") EXCEPT !.verifier = TRUE]
       ELSE IF CallbackTaken(er, callback_program)
       THEN LET cbp == IF er.callback_program_id # None
                       THEN er.callback_program_id ELSE ID
            IN IF cbp # callback_program
               THEN [Fail(L, "InvalidCallbackProgram") EXCEPT !.verifier = TRUE]
               ELSE IF /\ er.callback_extra_accounts.some
                       /\ ExtraAccountsRefused(extra_accounts,
                                               er.callback_extra_accounts.v)
               THEN [Fail(L, "InvalidCallbackExtraAccounts") EXCEPT !.verifier = TRUE]
               ELSE IF ~CallbackResultAccepted(cb_ok)
               THEN [Fail(L, "CallbackFailed") EXCEPT !.verifier = TRUE]
               ELSE PayAndClose(L, e, prover, er.tip,
                                IF cb_ok THEN "ok" ELSE "failed",
                                CallbackPayload(er, st))
       ELSE PayAndClose(L, e, prover, er.tip, "none", <<>>)

\* ---------------------------------------------------------------- actions
Tick ==
    /\ slot < MaxSlot
    /\ slot' = slot + 1
    /\ UNCHANGED <<lamports, exec, claim, outcome, last>>

\* admission calls: every payload against a deployment that declares no
\* input list; the payloads that vary the inputs against every deployment;
\* those that reference an input set against every auxiliary account list,
\* for a deployment of three inputs and (one reference, one inline input)
\* for a deployment of one
SetInputERs == {er \in InputERs : er.input.some /\ IsInputSet(er.input.v[1])}

ExecuteCalls ==
    {[er |-> er, deploy |-> [some |-> FALSE, v |-> 0], extra_accounts |-> <<>>] :
        er \in ExecutePayloads}
    \cup [er : InputERs \ SetInputERs, deploy : Deployments, extra_accounts : {<<>>}]
    \cup [er : SetInputERs, deploy : {[some |-> TRUE, v |-> 3]},
          extra_accounts : ExecuteExtraAccounts]
    \cup [er : {er \in SetInputERs : Len(er.input.v) = 2 /\ er.input.v[1].data.v = <<6>>},
          deploy : {[some |-> TRUE, v |-> 1]}, extra_accounts : ExecuteExtraAccounts]

ExecuteCall(e, c) ==
    Commit(process_execute_v1(Ledger, e, Payer, c.er, c.deploy, c.extra_accounts),
           "execute", e, Requester)

Execute == \E e \in EIds, c \in ExecuteCalls : ExecuteCall(e, c)

ClaimCall(e, claimer, cl) ==
    Commit(process_claim_v1(Ledger, e, claimer, Payer, cl, slot), "claim", e, claimer)

Claim ==
    \E e \in EIds, claimer \in Provers, cl \in ClaimPayloads : ClaimCall(e, claimer, cl)

\* status reports: the complete ones, and those with exactly one of the five
\* fields missing or the proof of the wrong length
CompleteReports ==
    {st \in StatusPayloads : ReportComplete(st)}
IncompleteReports ==
    {[CompleteReport EXCEPT ![f] = x] :
        f \in {"proof", "execution_digest", "input_digest", "assumption_digest",
               "committed_outputs"},
        x \in {None, "short"}} \cap StatusPayloads

\* settlement calls: every report sent without callback accounts, and the
\* accepted report sent with every callback program and extra-account list
StatusCalls ==
    [st : IncompleteReports, prover : {"p1"}, callback_program : {ID},
     extra_accounts : {<<>>}, cb_ok : {TRUE}]
    \cup
    [st : CompleteReports, prover : Provers, callback_program : {ID},
     extra_accounts : {<<>>}, cb_ok : {TRUE}]
    \cup
    [st : {CompleteReport}, prover : {"p1"}, callback_program : {CallbackProgram},
     extra_accounts : ExtraAccountLists, cb_ok : BOOLEAN]
    \cup
    [st : {CompleteReport}, prover : {"p1"}, callback_program : {OtherProgram},
     extra_accounts : {<<>>}, cb_ok : {TRUE}]

StatusCall(e, c) ==
    Commit(process_status_v1(Ledger, e, c.prover, c.callback_program, c.extra_accounts,
                             c.st, c.cb_ok, slot),
           "status", e, c.prover)

Status == \E e \in EIds, c \in StatusCalls : StatusCall(e, c)

Next ==
    \/ Tick
    \/ Execute
    \/ Claim
    \/ Status

Spec == Init /\ [][Next]_vars

\* The same program with a payer that can fund two requests one after the
\* other, admission calls varying the tip and the max height only: the
\* request address is used again after a closure.
ReuseLamports == [InitLamports EXCEPT ![Payer] = 2 * (MaxTip + ExecRent) + ClaimRent]

ReuseInit ==
    /\ slot = 0
    /\ lamports = ReuseLamports
    /\ exec = [e \in EIds |-> NoExec]
    /\ claim = [e \in EIds |-> NoClaim]
    /\ outcome = [e \in EIds |-> None]
    /\ last = NoCall

TipHeightCalls == {c \in ExecuteCalls : c.er \in TipHeightERs}

ExecuteTipHeight == \E e \in EIds, c \in TipHeightCalls : ExecuteCall(e, c)

ReuseNext ==
    \/ Tick
    \/ ExecuteTipHeight
    \/ Claim
    \/ Status

SpecReuse == ReuseInit /\ [][ReuseNext]_vars

\* ------------------------------------------------------------- properties
\* a step that is a call of handler `op` on request e (Tick leaves `last`)
CallStep(op, e) == slot' = slot /\ last'.op = op /\ last'.e = e

Holder(e) == IF claim[e].exists THEN claim[e].claimer ELSE None

\* the report a prover sends with a proof the verifier accepts
GoodReport(e, d) ==
    [execution_id |-> e, proof |-> "good", execution_digest |-> "exed",
     input_digest |-> d, assumption_digest |-> "asud", committed_outputs |-> "co"]

\* C1: whenever a settlement pays the tip, the account credited is the
\* holder recorded in the request's claim record; an account that is not the
\* holder (or any account while no claim exists) never receives the tip.
C1_TipGoesToHolder ==
    (last.op = "status" /\ last.tip_to # None) =>
        (claim[last.e].exists /\ claim[last.e].claimer = last.tip_to)

\* C2 (as stated): while a claim record exists and the height is within its
\* commitment height, every claim call on the request fails with "active
\* claim exists" and changes nothing; the holder changes only in a contested
\* re-claim taken at a height above the commitment height.
C2_AnyCallFailsActiveClaim ==
    [][\A e \in EIds :
        /\ (CallStep("claim", e) /\ claim[e].exists
                /\ slot <= claim[e].block_commitment)
            => /\ last'.result = "ActiveClaimExists"
               /\ UNCHANGED <<lamports, exec, claim, outcome>>
        /\ (claim[e].exists /\ claim'[e].exists
                /\ claim'[e].claimer # claim[e].claimer)
            => /\ CallStep("claim", e) /\ last'.path = "contested"
               /\ slot > claim[e].block_commitment]_vars

\* C2 (amended): for an open, non-expired request, while a claim record
\* exists and the height is within its commitment height, every claim call
\* fails and changes nothing: with "insufficient stake" when the claimer's
\* balance is below the tip, with "active claim exists" otherwise.  The
\* holder of a claim record changes only in a contested re-claim taken at a
\* height above the commitment height.
C2_ClaimExclusivity ==
    [][\A e \in EIds :
        /\ (CallStep("claim", e) /\ claim[e].exists /\ exec[e].exists
                /\ ~ClaimExpired(exec[e].er, slot)
                /\ slot <= claim[e].block_commitment)
            => /\ last'.result =
                    IF lamports[last'.who] < exec[e].er.tip
                    THEN "InsufficientStake" ELSE "ActiveClaimExists"
               /\ UNCHANGED <<lamports, exec, claim, outcome>>
        /\ (claim[e].exists /\ claim'[e].exists
                /\ claim'[e].claimer # claim[e].claimer)
            => /\ CallStep("claim", e) /\ last'.path = "contested"
               /\ slot > claim[e].block_commitment]_vars

\* a second party's claim was refused inside the holder's window
C2_Witness ==
    /\ last.op = "claim" /\ last.result = "ActiveClaimExists"
    /\ exec[last.e].exists /\ claim[last.e].exists
    /\ claim[last.e].claimer \in Provers \ {last.who}
    /\ slot <= claim[last.e].block_commitment

\* C3: a contested re-claim transfers the escrowed stake out of the claim
\* record to the previous holder and takes the new stake from the new
\* claimant: the previous holder's balance grows by the stake and the new
\* claimant's balance shrinks by it.
C3_ContestedRefundsPreviousHolder ==
    [][\A e \in EIds :
        (CallStep("claim", e) /\ last'.result = "Ok" /\ last'.path = "contested"
            /\ claim[e].claimer \in Provers \ {last'.who})
        => /\ lamports'[claim[e].claimer] =
                lamports[claim[e].claimer] + ClaimStake(exec[e].er.tip)
           /\ lamports'[last'.who] = lamports[last'.who] - ClaimStake(exec[e].er.tip)]_vars

\* C4: a claim call on an expired request takes no claim, closes the request
\* with the "expired" outcome, refunds the request's balance to the
\* requester (not the claimer or payer) and returns success.
C4_ExpiredClaimRefundsRequester ==
    [][\A e \in EIds :
        (CallStep("claim", e) /\ exec[e].exists
            /\ exec[e].er.max_block_height < slot
            /\ lamports[last'.who] >= exec[e].er.tip)
        => /\ last'.result = "Ok"
           /\ ~exec'[e].exists /\ outcome'[e] = "ExecutionExpired"
           /\ Holder(e)' = Holder(e)
           /\ lamports'[Requester] = lamports[Requester] + exec[e].lamports
           /\ \A p \in Provers : lamports'[p] = lamports[p]]_vars

\* C5: while the height is above the request's max height, neither a claim
\* call nor a settlement call creates, overwrites or changes the balance of
\* the claim record; an absent claim record stays absent.
C5_ExpiryLeavesClaimRecord ==
    [][\A e \in EIds :
        ((CallStep("claim", e) \/ CallStep("status", e)) /\ exec[e].exists
            /\ exec[e].er.max_block_height < slot)
        => claim'[e] = claim[e]]_vars

\* C6: a settlement call on an expired request closes the request with the
\* "expired" outcome as a successful terminal transition, the balance going
\* back to the requester, without verification, payout or callback; the
\* request record no longer exists afterwards.
C6_ExpiredSettlementCloses ==
    [][\A e \in EIds :
        (CallStep("status", e) /\ exec[e].exists
            /\ exec[e].er.max_block_height < slot)
        => /\ last'.result = "Ok"
           /\ ~exec'[e].exists /\ outcome'[e] = "ExecutionExpired"
           /\ lamports'[Requester] = lamports[Requester] + exec[e].lamports
           /\ ~last'.verifier /\ last'.tip_to = None /\ last'.callback = "none"]_vars

\* the result of a settlement call c on request e in the current state
StatusResult(e, c) ==
    process_status_v1(Ledger, e, c.prover, c.callback_program, c.extra_accounts,
                      c.st, c.cb_ok, slot)

\* a settlement call that reaches proof verification
Verifiable(e, c) ==
    exec[e].exists /\ exec[e].er.max_block_height >= slot /\ ReportComplete(c.st)

\* the ledger after a settlement that paid the tip to c.prover and closed
\* the request with Success
PaidAndClosed(e, c, r) ==
    /\ r.result = "Ok" /\ r.tip_to = c.prover
    /\ r.L.lamports[c.prover] = lamports[c.prover] + exec[e].er.tip
    /\ r.L.lamports[Requester] = lamports[Requester] + exec[e].lamports - exec[e].er.tip
    /\ \A p \in Provers \ {c.prover} : r.L.lamports[p] = lamports[p]
    /\ ~r.L.exec[e].exists /\ r.L.outcome[e] = "Success"

\* the ledger after a settlement that paid nothing and closed the request
\* with `code`, its whole balance going to the requester
ClosedUnpaid(e, r, code) ==
    /\ r.result = "Ok" /\ r.tip_to = None /\ r.callback = "none"
    /\ r.L.lamports[Requester] = lamports[Requester] + exec[e].lamports
    /\ \A p \in Provers : r.L.lamports[p] = lamports[p]
    /\ ~r.L.exec[e].exists /\ r.L.outcome[e] = code

\* payout and closure happen once per request: a payout closes the open
\* request it is paid from, and no call on a closed request moves value
OncePerRequest ==
    \A e \in EIds :
        /\ (CallStep("status", e) /\ last'.tip_to # None)
            => (exec[e].exists /\ ~exec'[e].exists)
        /\ (~exec[e].exists /\ (CallStep("status", e) \/ CallStep("claim", e)))
            => UNCHANGED <<lamports, exec, claim, outcome>>

\* C7 (as stated): the tip is paid at most once and the request closed at
\* most once; a settlement whose proof verifies pays the tip once and closes
\* the request with Success; one whose proof does not verify pays nothing,
\* closes with VerifyError and refunds the requester; after closure no
\* settlement or claim call moves value.
C7_VerifiedSettlementAlwaysPays ==
    /\ [](\A e \in EIds, c \in StatusCalls :
            Verifiable(e, c) =>
                /\ (c.st.proof = "good" /\ exec[e].er.prover_version = "V1_0_1")
                    => PaidAndClosed(e, c, StatusResult(e, c))
                /\ (c.st.proof = "bad")
                    => ClosedUnpaid(e, StatusResult(e, c), "VerifyError"))
    /\ [][OncePerRequest]_vars

\* C7 (amended): as C7, for a settlement whose proof verifies and which the
\* callback validation does not abort (invalid callback program, invalid
\* callback accounts); an aborted settlement changes nothing.
C7_SettlementDeterminism ==
    /\ [](\A e \in EIds, c \in StatusCalls :
            Verifiable(e, c) =>
                LET r == StatusResult(e, c)
                    aborted == r.result \in {"InvalidCallbackProgram",
                                             "InvalidCallbackExtraAccounts"}
                IN /\ (c.st.proof = "good" /\ exec[e].er.prover_version = "V1_0_1")
                        => IF aborted
                           THEN /\ c.callback_program # ID
                                /\ exec[e].er.callback_instruction_prefix # None
                                /\ r.L = Ledger /\ r.tip_to = None
                           ELSE PaidAndClosed(e, c, r)
                   /\ (c.st.proof = "bad") => ClosedUnpaid(e, r, "VerifyError"))
    /\ [][OncePerRequest]_vars

\* a verified settlement paid the tip and closed the request with Success
C7_Witness ==
    /\ last.op = "status" /\ last.result = "Ok" /\ last.path = "success"
    /\ last.tip_to \in Provers /\ last.verifier
    /\ ~exec[last.e].exists /\ outcome[last.e] = "Success"

\* a request with a configured callback whose stored account list is given
\* with writability 0 (read-only) or 1 (writable)
CallbackConfigured(e) ==
    /\ exec[e].exists /\ exec[e].er.max_block_height >= slot
    /\ exec[e].er.prover_version = "V1_0_1"
    /\ exec[e].er.callback_program_id = CallbackProgram
    /\ exec[e].er.callback_instruction_prefix # None
    /\ exec[e].er.callback_extra_accounts.some
    /\ \A i \in 1..Len(exec[e].er.callback_extra_accounts.v) :
          exec[e].er.callback_extra_accounts.v[i].writable \in {0, 1}

\* the supplied list differs from the stored one in length, in an address or
\* in the writability of an entry
ExtraAccountsDiffer(extra_accounts, stored) ==
    \/ Len(extra_accounts) # Len(stored)
    \/ \E i \in 1..Len(extra_accounts) :
          \/ extra_accounts[i].key # stored[i].pubkey
          \/ extra_accounts[i].is_writable # (stored[i].writable = 1)

\* C8: in a settlement whose proof verifies on a request with a configured
\* callback, a supplied extra-account list that differs from the stored list
\* in length, in an address or in writability (in either direction) aborts
\* the call with "invalid callback accounts" before payout, callback or
\* closure.
C8_CallbackAccountsMustMatch ==
    \A e \in EIds, extra_accounts \in ExtraAccountLists, cb_ok \in BOOLEAN :
        (CallbackConfigured(e)
            /\ ExtraAccountsDiffer(extra_accounts, exec[e].er.callback_extra_accounts.v))
        => process_status_v1(Ledger, e, "p1", CallbackProgram, extra_accounts,
                             GoodReport(e, "d1"), cb_ok, slot).result
               = "InvalidCallbackExtraAccounts"

\* C9: for a request admitted with verify_input_hash, a settlement whose
\* report carries another input digest than the one recorded at admission
\* never pays the tip, never invokes the callback and never closes the
\* request with Success, even when the verifier accepts the proof.
C9_InputHashMismatchFails ==
    \A e \in EIds, d \in Digests, prover \in Provers :
        (exec[e].exists /\ exec[e].er.verify_input_hash
            /\ exec[e].er.input_digest # None /\ exec[e].er.input_digest # d)
        => LET r == process_status_v1(Ledger, e, prover, ID, <<>>, GoodReport(e, d),
                                      TRUE, slot)
           IN /\ r.tip_to = None
              /\ r.callback = "none"
              /\ ~(r.result = "Ok" /\ r.L.outcome[e] = "Success")

\* a report from which at least one of the five fields is absent
FieldAbsent(st) ==
    \/ st.proof \in {None, "short"}
    \/ st.execution_digest = None
    \/ st.input_digest = None
    \/ st.assumption_digest = None
    \/ st.committed_outputs = None

SettlementAccounts ==
    [prover : Provers, callback_program : {ID, CallbackProgram},
     extra_accounts : {<<>>}, cb_ok : {TRUE}]

\* C10: in a non-expired settlement, if any of the 256-byte proof, the
\* execution digest, the input digest, the assumption digest or the
\* committed outputs is absent from the report, the request is closed with
\* exit code ProvingError, the verifier is not consulted, no tip is paid, no
\* callback is made and the call returns success.
C10_IncompleteReportIsProvingError ==
    \A e \in EIds :
        (exec[e].exists /\ exec[e].er.max_block_height >= slot)
        => \A st \in StatusPayloads, a \in SettlementAccounts :
              (st.execution_id = e /\ FieldAbsent(st))
              => LET r == process_status_v1(Ledger, e, a.prover, a.callback_program,
                                            a.extra_accounts, st, a.cb_ok, slot)
                 IN ClosedUnpaid(e, r, "ProvingError") /\ ~r.verifier

\* a settlement with an incomplete report closed the request with
\* ProvingError
C10_Witness ==
    /\ last.op = "status" /\ last.result = "Ok" /\ last.path = "proving_failed"
    /\ ~last.verifier /\ last.tip_to = None /\ last.callback = "none"
    /\ ~exec[last.e].exists /\ outcome[last.e] = "ProvingError"

\* a settlement with a verifying proof on a request with a configured
\* callback, sent with the configured program and an account list that the
\* handler's validation accepts
CallbackReached(e, callback_program, extra_accounts) ==
    /\ exec[e].exists /\ exec[e].er.max_block_height >= slot
    /\ exec[e].er.prover_version = "V1_0_1"
    /\ CallbackTaken(exec[e].er, callback_program)
    /\ exec[e].er.callback_program_id = callback_program
    /\ exec[e].er.callback_extra_accounts.some
        => ~ExtraAccountsRefused(extra_accounts, exec[e].er.callback_extra_accounts.v)

\* C11: in a settlement whose proof verifies and whose callback account list
\* validates, a callback sub-call that returns an error does not abort the
\* settlement: the call returns success, pays the tip, closes the request
\* with Success, leaves the same ledger as when the callback succeeds, and
\* one sub-call is attempted.
C11_CallbackFailureNonFatal ==
    \A e \in EIds, prover \in Provers, extra_accounts \in ExtraAccountLists,
       d \in Digests :
        CallbackReached(e, CallbackProgram, extra_accounts)
        => LET ok == process_status_v1(Ledger, e, prover, CallbackProgram,
                                       extra_accounts, GoodReport(e, d), TRUE, slot)
               failed == process_status_v1(Ledger, e, prover, CallbackProgram,
                                           extra_accounts, GoodReport(e, d), FALSE, slot)
           IN /\ failed.result = "Ok" /\ failed.callback = "failed"
              /\ ok.result = "Ok" /\ ok.callback = "ok"
              /\ failed.L = ok.L
              /\ failed.payload = ok.payload
              /\ PaidAndClosed(e, [prover |-> prover], failed)

\* a settlement whose callback failed paid the tip and closed the request
C11_Witness ==
    /\ last.op = "status" /\ last.result = "Ok" /\ last.callback = "failed"
    /\ last.tip_to = last.who /\ last.verifier
    /\ ~exec[last.e].exists /\ outcome[last.e] = "Success"

\* C12: at most one request record exists per (requester, execution id): an
\* admission call whose target address already holds a record fails with an
\* error, whatever its payload, deployment and auxiliary accounts, and
\* leaves the record's contents and balance (and every other balance)
\* unchanged.
C12_OccupiedAddressRefused ==
    /\ [](\A e \in EIds :
            exec[e].exists
            => \A er \in ExecutePayloads, deploy \in Deployments,
                  extra_accounts \in ExecuteExtraAccounts :
                  LET r == process_execute_v1(Ledger, e, Payer, er, deploy,
                                              extra_accounts)
                  IN r.result # "Ok" /\ r.L = Ledger)
    /\ [][\A e \in EIds :
            (CallStep("execute", e) /\ exec[e].exists)
            => /\ last'.result # "Ok"
               /\ UNCHANGED <<lamports, exec, claim, outcome>>]_vars

\* an admission call was refused at the address of an open request
C12_Witness ==
    /\ last.op = "execute" /\ last.result = "InvalidExecutionAccount"
    /\ exec[last.e].exists /\ exec[last.e].lamports = ExecRent + exec[last.e].er.tip

\* C13: every request record that process_execute_v1 stores has a nonzero
\* max height, and an input digest whenever verify_input_hash is set; a
\* payload violating either condition is rejected and no record is created.
C13_AdmittedRequestWellFormed ==
    \A e \in EIds :
        exec[e].exists
        => /\ exec[e].er.max_block_height # 0
           /\ exec[e].er.verify_input_hash => exec[e].er.input_digest # None

\* an input that references an input set, and the record it references
\* (none when the index byte is missing or names no auxiliary account)
IsInputSetReference(i) == i.input_type = "InputSet"

ReferenceResolves(i, extra_accounts) ==
    /\ i.data.some /\ InputSetIndexOk(i, extra_accounts)
    /\ LET a == extra_accounts[i.data.v[1] - 6 + 1]
       IN a.is_input_set /\ a.inputs.some

\* the admission condition as the claim states it: no private-local input,
\* every reference resolves to an input-set record, and the inline inputs
\* plus the input counts of the referenced records make up the declared
\* count
InputsAdmissible(er, deploy, extra_accounts) ==
    /\ er.input.some
    /\ LET inputs == er.input.v
           idx == 1..Len(inputs)
           refs == {k \in idx : IsInputSetReference(inputs[k])}
       IN /\ \A k \in idx : inputs[k].input_type # "PrivateLocal"
          /\ \A k \in refs : ReferenceResolves(inputs[k], extra_accounts)
          /\ Len(inputs) - Cardinality(refs)
                + SumSeq([k \in idx |->
                            IF k \in refs
                            THEN extra_accounts[inputs[k].data.v[1] - 6 + 1].inputs.v
                            ELSE 0])
             = RequiredInputSize(deploy)

\* C14: an admission call at a free address, funded by the payer, creates
\* the request record exactly when no input is private-local and the inline
\* inputs plus the input counts of the referenced input-set records equal
\* the deployment's declared input count; otherwise it fails and creates no
\* record.
C14_AdmissionInputValidation ==
    \A e \in EIds, c \in ExecuteCalls :
        (~exec[e].exists /\ lamports[Payer] >= ExecRent + c.er.tip)
        => LET r == process_execute_v1(Ledger, e, Payer, c.er, c.deploy,
                                       c.extra_accounts)
           IN IF InputsAdmissible(c.er, c.deploy, c.extra_accounts)
              THEN r.result = "Ok" /\ r.L.exec[e].exists /\ r.L.exec[e].er = c.er
              ELSE r.result # "Ok" /\ r.L = Ledger

\* the value escrowed in the claim record of e, above its creation balance
Escrowed(c) == c.lamports - ClaimRent

\* C15: a claim call on an open, non-expired request whose claim record is
\* absent, by a claimer whose balance is at least the tip (the payer funding
\* the new record), succeeds on the first-claim path: it creates the claim
\* record, moves exactly floor(tip / 2) from the claimer into it, sets
\* holder = claimer, and leaves the request record and every other prover's
\* balance unchanged.
C15_FirstClaim ==
    /\ [](\A e \in EIds, claimer \in Provers, cl \in ClaimPayloads :
            (exec[e].exists /\ exec[e].er.max_block_height >= slot
                /\ ~claim[e].exists /\ cl.execution_id = e
                /\ lamports[claimer] >= exec[e].er.tip
                /\ lamports[Payer] >= ClaimRent)
            => LET r == process_claim_v1(Ledger, e, claimer, Payer, cl, slot)
                   stake == exec[e].er.tip \div 2
               IN /\ r.result = "Ok" /\ r.path = "first"
                  /\ r.L.claim[e].exists /\ r.L.claim[e].claimer = claimer
                  /\ Escrowed(r.L.claim[e]) = stake
                  /\ r.L.lamports[claimer] = lamports[claimer] - stake
                  /\ \A p \in Provers \ {claimer} : r.L.lamports[p] = lamports[p]
                  /\ r.L.lamports[Requester] = lamports[Requester]
                  /\ r.L.exec = exec /\ r.L.outcome = outcome)
    /\ [][\A e \in EIds :
            (CallStep("claim", e) /\ last'.result = "Ok" /\ last'.path = "first")
            => /\ ~claim[e].exists /\ claim'[e].exists
               /\ claim'[e].claimer = last'.who
               /\ Escrowed(claim'[e]) = exec[e].er.tip \div 2
               /\ exec' = exec]_vars

\* a first claim with a nonzero stake was taken
C15_Witness ==
    /\ last.op = "claim" /\ last.result = "Ok" /\ last.path = "first"
    /\ exec[last.e].exists /\ claim[last.e].exists
    /\ claim[last.e].claimer = last.who
    /\ Escrowed(claim[last.e]) > 0

\* C16: in every state of an open request (claim record absent or present,
\* window active or elapsed, request expired or not), a claim call by a
\* claimer whose balance is below the request's tip fails with
\* "insufficient stake" and has no effect: no claim record is created or
\* changed, no value moves and the request is not closed.
C16_SolvencyGate ==
    /\ [](\A e \in EIds, claimer \in Provers, cl \in ClaimPayloads :
            (exec[e].exists /\ cl.execution_id = e
                /\ lamports[claimer] < exec[e].er.tip)
            => LET r == process_claim_v1(Ledger, e, claimer, Payer, cl, slot)
               IN r.result = "InsufficientStake" /\ r.L = Ledger)
    /\ [][\A e \in EIds :
            (CallStep("claim", e) /\ exec[e].exists
                /\ lamports[last'.who] < exec[e].er.tip)
            => /\ last'.result = "InsufficientStake"
               /\ UNCHANGED <<lamports, exec, claim, outcome>>]_vars

\* an insolvent claimer was refused on an expired request, which stays open
C16_Witness ==
    /\ last.op = "claim" /\ last.result = "InsufficientStake"
    /\ exec[last.e].exists /\ exec[last.e].er.max_block_height < slot
    /\ lamports[last.who] >= exec[last.e].er.tip \div 2

\* C18: in every reachable state in which a claim record exists for a
\* request, the value escrowed in it above its creation balance equals
\* floor(tip / 2), the stake of the current holder only: never the stakes of
\* two parties and never less than the holder's stake.
C18_ClaimRecordHoldsOneStake ==
    \A e \in EIds :
        (exec[e].exists /\ claim[e].exists)
        => Escrowed(claim[e]) = exec[e].er.tip \div 2

\* C19: two claim calls by different claimers on the same open, non-expired
\* request with no claim record run one after the other, in either order:
\* the first takes the first-claim path and becomes holder; the second finds
\* the record present and fails with "active claim exists" at the same
\* height, or takes the contested path at a later height; never do both take
\* the first-claim path, and the record never ends up with two stakes.
C19_RacingClaims ==
    /\ [](\A e \in EIds, p \in Provers, q \in Provers, cl \in ClaimPayloads,
             cl2 \in ClaimPayloads :
            (p # q /\ exec[e].exists /\ exec[e].er.max_block_height >= slot
                /\ ~claim[e].exists /\ cl.execution_id = e /\ cl2.execution_id = e
                /\ lamports[p] >= exec[e].er.tip /\ lamports[q] >= exec[e].er.tip
                /\ lamports[Payer] >= ClaimRent)
            => LET stake == exec[e].er.tip \div 2
                   r1 == process_claim_v1(Ledger, e, p, Payer, cl, slot)
                   r2 == process_claim_v1(r1.L, e, q, Payer, cl2, slot)
               IN /\ r1.result = "Ok" /\ r1.path = "first"
                  /\ r1.L.claim[e].claimer = p
                  /\ r2.result = "ActiveClaimExists" /\ r2.L = r1.L
                  /\ \A h \in Slots :
                        (h > slot /\ exec[e].er.max_block_height >= h)
                        => LET r3 == process_claim_v1(r1.L, e, q, Payer, cl2, h)
                           IN /\ r3.result = "Ok" /\ r3.path = "contested"
                              /\ r3.L.claim[e].claimer = q
                              /\ Escrowed(r3.L.claim[e]) = stake)
    /\ [][\A e \in EIds :
            /\ (CallStep("claim", e) /\ last'.result = "Ok" /\ last'.path = "first")
                => (~claim[e].exists /\ claim'[e].exists)
            /\ claim[e].exists => claim'[e].exists]_vars

\* the second claimer took the claim over on the contested path, and the
\* record holds one stake
C19_Witness ==
    /\ last.op = "claim" /\ last.result = "Ok" /\ last.path = "contested"
    /\ exec[last.e].exists /\ claim[last.e].claimer = last.who
    /\ claim[last.e].block_commitment = slot /\ slot > 0
    /\ Escrowed(claim[last.e]) = exec[last.e].er.tip \div 2
    /\ Escrowed(claim[last.e]) > 0

\* C20: whenever a request record is destroyed (settlement success,
\* verification failure, proving failure or expiry) its claim record is
\* destroyed with it, the holder's stake being released on a successful
\* settlement: in no reachable state does a claim record with escrowed stake
\* exist for a request that has been closed.
C20_ClaimDestroyedWithRequest ==
    \A e \in EIds :
        (~exec[e].exists /\ outcome[e] # None)
        => ~(claim[e].exists /\ Escrowed(claim[e]) > 0)

\* the value held by the parties of a request and by its records: the
\* balances of the requester, of the provers, of the request records and of
\* the claim records
RECURSIVE SumLamports(_, _)
SumLamports(f, S) ==
    IF S = {} THEN 0
    ELSE LET x == CHOOSE y \in S : TRUE IN f[x] + SumLamports(f, S \ {x})

HeldValue ==
    lamports[Requester] + SumLamports(lamports, Provers)
    + SumLamports([e \in EIds |-> exec[e].lamports], EIds)
    + SumLamports([e \in EIds |-> claim[e].lamports], EIds)

\* C22: value conservation.  Every claim or settlement step, whichever branch
\* it takes (first claim, contested re-claim, active-claim failure, expired
\* claim, proving-failed, verify-failed, success with or without callback),
\* leaves the sum of the balances of the requester, the provers, the request
\* record and the claim record unchanged, except for what the payer puts
\* into a claim record the step creates; and the tip a settlement pays is
\* the request's tip and never exceeds the balance the request record held
\* before the step.
C22_ValueConservation ==
    [][\A e \in EIds :
          (CallStep("claim", e) \/ CallStep("status", e))
          => /\ HeldValue' - HeldValue = lamports[Payer] - lamports'[Payer]
             /\ lamports[Payer] - lamports'[Payer]
                    = IF ~claim[e].exists /\ claim'[e].exists THEN ClaimRent ELSE 0
             /\ \A w \in Wallets : lamports'[w] >= 0
             /\ exec'[e].lamports >= 0 /\ claim'[e].lamports >= 0
             /\ (last'.result = "Ok" /\ last'.tip_to # None)
                => /\ lamports'[last'.tip_to] - lamports[last'.tip_to] = exec[e].er.tip
                   /\ exec[e].er.tip <= exec[e].lamports]_vars

\* a settlement has paid the tip and closed a request that a prover had
\* claimed, the stake still in the claim record
C22_Witness ==
    /\ last.op = "status" /\ last.result = "Ok" /\ last.path = "success"
    /\ last.tip_to \in Provers /\ lamports[last.tip_to] > MaxTip
    /\ ~exec[last.e].exists /\ outcome[last.e] = "Success"
    /\ claim[last.e].exists /\ Escrowed(claim[last.e]) > 0
    /\ lamports[Requester] > 0

====
